---- MODULE Spec2Model ----
(***************************************************************************)
(* Nightfall's StateManager (src/src/lib.rs): the session map, the map of  *)
(* request channels, one monitor thread per init_create, the cleaner       *)
(* thread, and the caller threads that run the public methods.             *)
(*                                                                         *)
(* Session (mod session) is not part of lib.rs; its operations are         *)
(* modelled from the specification's section 4.1 and are the operators     *)
(* named after its methods below.                                          *)
(*                                                                         *)
(* Time is counted in ticks of TickSecs seconds; every event happens on a  *)
(* tick.  Speeds are in tenths (20 is 2.0x).                               *)
(***************************************************************************)
EXTENDS Integers, Sequences, FiniteSets, TLC

\* ---------------------------------------------------------------- bounds
NumIds == 2
NumCallers == 2
MaxMon == 2
MaxCalls == 2
MaxTime == 2
MaxAhead == 1
TickSecs == 60
\* the bounds of the scenarios: OpCodes sent, ticks
SeekCalls == 3
SeekTime == 1
RaceCalls == 3
OrderCalls == 2
PauseCalls == 2
PauseTime == 1
LiveCalls == 2
MaxHintChunk == 40
TwoCalls == 3
ResumeCalls == 2
ResumeTime == 1
ShardCalls == 2

Ids == 1..NumIds
Callers == 1..NumCallers
Mons == 1..MaxMon
\* the chunk numbers callers ask for, and the speeds the transcoder reports
ReqChunks == {0, 3, 20}
Speeds == {20, 200}

\* ------------------------------------------------------ program constants
FarChunks == 15
CooldownSecs == 15
EtaBaseMs == 10000
EtaFloorMs == 8000
ClientEtaFloorMs == 5000
ChunkDurMs == 5000
TSoftSecs == 30
THardSecs == 90

NoSession == [none |-> TRUE]
NoMon == [none |-> TRUE]
NoItem == [none |-> TRUE]
NoRes == [kind |-> "none"]

Max(a, b) == IF a > b THEN a ELSE b

VARIABLES
    sessions,         \* StateManager.sessions: id -> Session or NoSession
    chunk_requester,  \* StateManager.chunk_requester: id -> channel (monitor) or 0
    monitors,         \* the session_monitor threads: locals and position
    chan,             \* the unbounded channel each monitor receives on
    callers,          \* the threads calling the public methods
    cleaner,          \* the cleaner thread's position in its pass
    now,              \* Instant::now(), in ticks
    nsent             \* OpCodes sent by callers so far (numbers the messages)

vars == <<sessions, chunk_requester, monitors, chan, callers, cleaner, now, nsent>>

\* ------------------------------------------------------------ Session
\* Session::new(id, file, profile, 0, outdir, stream_type, ffmpeg_bin)
SessionNew(direct, sp, t) ==
    [direct |-> direct, start_num |-> 0, cur |-> 0, chunks |-> {},
     child |-> 0, paused |-> FALSE, last_activity |-> t, speed |-> sp]

\* child counts the live transcoder processes of the session
has_started(s) == s.child > 0
start_num(s) == s.start_num
current_chunk(s) == s.cur
is_chunk_done(s, n) == n \in s.chunks
raw_speed10(s) == s.speed

StartAlways(s, t) == [s EXCEPT !.child = @ + 1, !.paused = FALSE, !.last_activity = t]
start(s, t) ==
    IF has_started(s) THEN s
    ELSE [s EXCEPT !.child = @ + 1, !.paused = FALSE, !.last_activity = t]

cont(s) == [s EXCEPT !.paused = FALSE]
pause(s) == [s EXCEPT !.paused = TRUE]
join(s) == [s EXCEPT !.child = IF @ > 0 THEN @ - 1 ELSE 0]
reset_to(s, k) ==
    [s EXCEPT !.start_num = k, !.cur = k, !.chunks = {c \in s.chunks : c < k}]
reset_timeout(s, chunk, t) == [s EXCEPT !.last_activity = t]

is_timeout(s, t) == (t - s.last_activity) * TickSecs > TSoftSecs
is_hard_timeout(s, t) == (t - s.last_activity) * TickSecs > THardSecs

chunk_to_path(id, n) == <<"outdir", id, n, "m4s">>
init_seg(id) == <<"outdir", id, "init.mp4">>

\* eta_for(chunk) = max(0, chunk - current_chunk) * chunk duration / raw_speed.
\* eta_for(chunk).as_millis() * speed10, so that no division is needed:
\* eta_ms > max(base / speed, floor)  <=>  eta_ms*speed10 > max(base*10, floor*speed10)
EtaDist(s, chunk) == Max(0, chunk - s.cur)
EtaMsTimesSpeed10(s, chunk) == EtaDist(s, chunk) * ChunkDurMs * 10
eta_secs(s, chunk) == (EtaDist(s, chunk) * ChunkDurMs * 10) \div (s.speed * 1000)
EtaOver(s, chunk, floor) ==
    EtaMsTimesSpeed10(s, chunk) > Max(EtaBaseMs * 10, floor * s.speed)

\* ------------------------------------------------------------ helpers
Sess(m) == sessions[monitors[m].sid]
SetSess(id, s) == [sessions EXCEPT ![id] = s]
Peeked(m) == Head(chan[m])
Msg(op, chunk, c, n) == [op |-> op, chunk |-> chunk, from |-> c, seq |-> n, rq |-> FALSE]
IdleCaller ==
    [pc |-> "idle", op |-> "none", id |-> 0, chunk |-> 0, tx |-> 0, shard |-> 0, res |-> NoRes]
Ok(v) == [kind |-> "ok", val |-> v]
Err(e) == [kind |-> "err", val |-> e]
SeekOps == {"get_segment", "eta_for_seg", "should_client_hard_seek"}
OpCodeOf(op) ==
    CASE op = "get_segment" -> "ChunkRequest"
      [] op = "eta_for_seg" -> "ChunkEta"
      [] op = "should_client_hard_seek" -> "ShouldClientHardSeek"
      [] OTHER -> "ChunkInitRequest"

\* A caller inside get_segment, eta_for_seg or should_client_hard_seek keeps the
\* Ref it got from chunk_requester.get (a read lock on the entry's shard) until
\* the method returns.
HoldsSenderRef(c, id) ==
    /\ callers[c].op \in SeekOps
    /\ callers[c].id = id
    /\ callers[c].pc \in {"wait", "ret"}

Init ==
    /\ sessions = [i \in Ids |-> NoSession]
    /\ chunk_requester = [i \in Ids |-> 0]
    /\ monitors = [m \in Mons |-> NoMon]
    /\ chan = [m \in Mons |-> <<>>]
    /\ callers = [c \in Callers |-> IdleCaller]
    /\ cleaner = [pc |-> "iter", at |-> 1]
    /\ now = 0
    /\ nsent = 0

\* ------------------------------------------------------ session_monitor
\* The three tests of the ChunkRequest peek block.
PeekCond1Le(s, chunk) == chunk <= start_num(s)
PeekCond1(s, chunk) == chunk < start_num(s)
PeekCond2(s, chunk, t, lhs) ==
    /\ chunk > current_chunk(s) + FarChunks
    /\ t * TickSecs < lhs * TickSecs + CooldownSecs
PeekCond3(s, chunk) == EtaOver(s, chunk, EtaFloorMs)

\* loop top: sessions.get, rx.peek() (blocks while the channel is empty), and
\* for a ChunkRequest the first test with its join
MonPeek(m) ==
    /\ monitors[m] # NoMon
    /\ monitors[m].pc = "peek"
    /\ chan[m] # <<>>
    /\ LET h == Peeked(m)
           s == Sess(m)
       IN  IF h.op = "ChunkRequest"
           THEN IF PeekCond1(s, h.chunk)
                THEN /\ sessions' = SetSess(monitors[m].sid, join(s))
                     /\ monitors' = [monitors EXCEPT ![m].pc = "reset1"]
                ELSE /\ monitors' = [monitors EXCEPT ![m].pc = "cont"]
                     /\ UNCHANGED sessions
           ELSE /\ monitors' = [monitors EXCEPT ![m].pc = "next"]
                /\ UNCHANGED sessions
    /\ UNCHANGED <<chunk_requester, chan, callers, cleaner, now, nsent>>

MonResetToCurrent(m) ==
    /\ monitors[m] # NoMon
    /\ monitors[m].pc \in {"reset1", "reset2", "reset3"}
    /\ sessions' = SetSess(monitors[m].sid, reset_to(Sess(m), current_chunk(Sess(m))))
    /\ monitors' = [monitors EXCEPT ![m].pc =
                       CASE monitors[m].pc = "reset1" -> "start1"
                         [] monitors[m].pc = "reset2" -> "start2"
                         [] OTHER -> "start3"]
    /\ UNCHANGED <<chunk_requester, chan, callers, cleaner, now, nsent>>

\* session.reset_to(*chunk) of a hard seek
MonReset(m) ==
    /\ monitors[m] # NoMon
    /\ monitors[m].pc \in {"reset1", "reset2", "reset3"}
    /\ sessions' = SetSess(monitors[m].sid, reset_to(Sess(m), Peeked(m).chunk))
    /\ monitors' = [monitors EXCEPT ![m].pc =
                       CASE monitors[m].pc = "reset1" -> "start1"
                         [] monitors[m].pc = "reset2" -> "start2"
                         [] OTHER -> "start3"]
    /\ UNCHANGED <<chunk_requester, chan, callers, cleaner, now, nsent>>

\* session.start() of a hard seek; the first two tests then set last_hard_seek,
\* the eta test does not
MonStart(m) ==
    /\ monitors[m] # NoMon
    /\ monitors[m].pc \in {"start1", "start2", "start3"}
    /\ sessions' = SetSess(monitors[m].sid, start(Sess(m), now))
    /\ monitors' = [monitors EXCEPT
                       ![m].pc = CASE monitors[m].pc = "start1" -> "cont"
                                   [] monitors[m].pc = "start2" -> "cond3"
                                   [] OTHER -> "next",
                       ![m].last_hard_seek =
                           IF monitors[m].pc = "start3" THEN @ ELSE now]
    /\ UNCHANGED <<chunk_requester, chan, callers, cleaner, now, nsent>>

\* if session.paused.load(SeqCst) { session.cont() }, after the first test and
\* after rx.next()
ContNever(s) == s
ContIfPaused(s) == IF s.paused THEN cont(s) ELSE s

\* if session.paused { session.cont() }
MonCont(m) ==
    /\ monitors[m] # NoMon
    /\ monitors[m].pc = "cont"
    /\ sessions' = SetSess(monitors[m].sid,
                           ContIfPaused(Sess(m)))
    /\ monitors' = [monitors EXCEPT ![m].pc = "cond2"]
    /\ UNCHANGED <<chunk_requester, chan, callers, cleaner, now, nsent>>

\* the hard seek cooldown test with its join
MonCond2(m) ==
    /\ monitors[m] # NoMon
    /\ monitors[m].pc = "cond2"
    /\ IF PeekCond2(Sess(m), Peeked(m).chunk, now, monitors[m].last_hard_seek)
       THEN /\ sessions' = SetSess(monitors[m].sid, join(Sess(m)))
            /\ monitors' = [monitors EXCEPT ![m].pc = "reset2"]
       ELSE /\ monitors' = [monitors EXCEPT ![m].pc = "cond3"]
            /\ UNCHANGED sessions
    /\ UNCHANGED <<chunk_requester, chan, callers, cleaner, now, nsent>>

\* the eta test with its join
MonCond3(m) ==
    /\ monitors[m] # NoMon
    /\ monitors[m].pc = "cond3"
    /\ IF PeekCond3(Sess(m), Peeked(m).chunk)
       THEN /\ sessions' = SetSess(monitors[m].sid, join(Sess(m)))
            /\ monitors' = [monitors EXCEPT ![m].pc = "reset3"]
       ELSE /\ monitors' = [monitors EXCEPT ![m].pc = "next"]
            /\ UNCHANGED sessions
    /\ UNCHANGED <<chunk_requester, chan, callers, cleaner, now, nsent>>

\* let mut item = rx.next(); if item.is_some() && session.paused { session.cont() }
MonNextLast(m) ==
    /\ monitors[m] # NoMon
    /\ monitors[m].pc = "next"
    /\ chan[m] # <<>>
    /\ chan' = [chan EXCEPT ![m] = SubSeq(@, 1, Len(@) - 1)]
    /\ monitors' = [monitors EXCEPT
                       ![m].item = chan[m][Len(chan[m])],
                       ![m].pc = IF chan[m][Len(chan[m])].op \in {"ChunkRequest", "ChunkInitRequest"}
                                 THEN "check" ELSE "reply"]
    /\ sessions' = SetSess(monitors[m].sid,
                           ContIfPaused(Sess(m)))
    /\ UNCHANGED <<chunk_requester, callers, cleaner, now, nsent>>

MonNext(m) ==
    /\ monitors[m] # NoMon
    /\ monitors[m].pc = "next"
    /\ chan[m] # <<>>
    /\ chan' = [chan EXCEPT ![m] = Tail(@)]
    /\ monitors' = [monitors EXCEPT
                       ![m].item = Head(chan[m]),
                       ![m].pc = IF Head(chan[m]).op \in {"ChunkRequest", "ChunkInitRequest"}
                                 THEN "check" ELSE "reply"]
    /\ sessions' = SetSess(monitors[m].sid,
                           ContIfPaused(Sess(m)))
    /\ UNCHANGED <<chunk_requester, callers, cleaner, now, nsent>>

\* the chunk an item waits for: its own, or start_num() for the init request
WantedChunk(s, item) ==
    IF item.op = "ChunkRequest" THEN item.chunk ELSE start_num(s)

\* Where a request whose chunk is not done goes: tx.send(item.take().unwrap())
\* puts it at the back of the monitor's own channel.
Requeue(q, item) == Append(q, [item EXCEPT !.rq = TRUE])

MonCheckAnswers(m) ==
    /\ monitors[m] # NoMon
    /\ monitors[m].pc = "check"
    /\ IF ~is_chunk_done(Sess(m), WantedChunk(Sess(m), monitors[m].item))
       THEN /\ callers' = [callers EXCEPT ![monitors[m].item.from].res = Err("ChunkNotDone"),
                                          ![monitors[m].item.from].pc = "ret"]
            /\ monitors' = [monitors EXCEPT ![m].item = NoItem, ![m].pc = "peek"]
       ELSE /\ monitors' = [monitors EXCEPT ![m].pc = "reply"]
            /\ UNCHANGED callers
    /\ UNCHANGED <<sessions, chunk_requester, chan, cleaner, now, nsent>>

\* the two is_chunk_done tests; a request that is sent back leaves item empty,
\* and the loop ends in the 200 ms sleep
MonCheck(m) ==
    /\ monitors[m] # NoMon
    /\ monitors[m].pc = "check"
    /\ IF ~is_chunk_done(Sess(m), WantedChunk(Sess(m), monitors[m].item))
       THEN /\ chan' = [chan EXCEPT ![m] = Requeue(@, monitors[m].item)]
            /\ monitors' = [monitors EXCEPT ![m].item = NoItem, ![m].pc = "peek"]
       ELSE /\ monitors' = [monitors EXCEPT ![m].pc = "reply"]
            /\ UNCHANGED chan
    /\ UNCHANGED <<sessions, chunk_requester, callers, cleaner, now, nsent>>

ClientHardSeekStrict(s, chunk, t, lhs) ==
    \/ chunk < start_num(s)
    \/ /\ chunk > current_chunk(s) + FarChunks
       /\ t * TickSecs < lhs * TickSecs + CooldownSecs
    \/ EtaOver(s, chunk, 2 * EtaFloorMs)

\* the answer to ShouldClientHardSeek
ClientHardSeek(s, chunk, t, lhs) ==
    \/ chunk < start_num(s)
    \/ /\ chunk > current_chunk(s) + FarChunks
       /\ t * TickSecs < lhs * TickSecs + CooldownSecs
    \/ EtaOver(s, chunk, ClientEtaFloorMs)

\* what chan.send(..) carries for an item
ReplyFor(m, item) ==
    LET s == Sess(m)
        id == monitors[m].sid
    IN  CASE item.op = "ChunkRequest" -> Ok(chunk_to_path(id, item.chunk))
          [] item.op = "ChunkInitRequest" -> Ok(chunk_to_path(id, start_num(s)))
          [] item.op = "ChunkEta" -> Ok(eta_secs(s, item.chunk))
          [] OTHER -> Ok(ClientHardSeek(s, item.chunk, now, monitors[m].last_hard_seek))

\* the four reply branches; each ends the iteration with continue
MonReply(m) ==
    /\ monitors[m] # NoMon
    /\ monitors[m].pc = "reply"
    /\ LET item == monitors[m].item
       IN  /\ callers' = [callers EXCEPT ![item.from].res = ReplyFor(m, item),
                                         ![item.from].pc = "ret"]
           /\ sessions' = SetSess(monitors[m].sid,
                                  IF item.op = "ChunkRequest"
                                  THEN reset_timeout(Sess(m), item.chunk, now)
                                  ELSE Sess(m))
    /\ monitors' = [monitors EXCEPT ![m].item = NoItem, ![m].pc = "peek"]
    /\ UNCHANGED <<chunk_requester, chan, cleaner, now, nsent>>

MonitorStep(m) ==
    \/ MonPeek(m)
    \/ MonReset(m)
    \/ MonStart(m)
    \/ MonCont(m)
    \/ MonCond2(m)
    \/ MonCond3(m)
    \/ MonNext(m)
    \/ MonCheck(m)
    \/ MonReply(m)

\* ------------------------------------------------------------- callers
Card(S) == Cardinality(S)
LiveMons == {m \in Mons : monitors[m] # NoMon}
FreeMon == CHOOSE m \in Mons : monitors[m] = NoMon /\ \A k \in Mons : k < m => monitors[k] # NoMon
AboutToSpawn == {c \in Callers : callers[c].pc = "ic_spawn"}
\* the bounds of the model: OpCodes sent, and monitor threads spawned
CanSend(scn) == nsent < scn.calls
CanSpawn(scn) == Card(LiveMons) + Card(AboutToSpawn) < scn.mons
FreshId == CHOOSE i \in Ids : sessions[i] = NoSession /\ \A k \in Ids : k < i => sessions[k] # NoSession

\* create: a new stopped session under a fresh id
CreateAndStart(scn, direct, sp) ==
    /\ \E i \in Ids : sessions[i] = NoSession
    /\ FreshId \in scn.ids
    /\ sessions' = SetSess(FreshId, start(SessionNew(direct, sp, now), now))
    /\ UNCHANGED <<chunk_requester, monitors, chan, callers, cleaner, now, nsent>>
Create(scn, direct, sp) ==
    /\ \E i \in Ids : sessions[i] = NoSession
    /\ FreshId \in scn.ids
    /\ sessions' = SetSess(FreshId, SessionNew(direct, sp, now))
    /\ UNCHANGED <<chunk_requester, monitors, chan, callers, cleaner, now, nsent>>

\* create run by a caller thread, with the lock of the map's shard.  The new
\* key is a random uuid: the shard of sessions it hashes into is the shard of
\* an existing session k, or (k = 0) of none.
CreateCall(scn, c, k) ==
    /\ callers[c].pc = "idle"
    /\ \E i \in Ids : sessions[i] = NoSession
    /\ FreshId \in scn.ids
    /\ IF k = 0 THEN TRUE ELSE sessions[k] # NoSession
    /\ callers' = [callers EXCEPT ![c] =
           [IdleCaller EXCEPT !.pc = "cr_insert", !.op = "create", !.id = FreshId, !.shard = k]]
    /\ UNCHANGED <<sessions, chunk_requester, monitors, chan, cleaner, now, nsent>>

\* A monitor holds the Ref it got from sessions.get at the top of its loop (a
\* read lock on the shard of its session) through the whole pass, the blocking
\* rx.peek() included; it lets go of it only between two passes.
HoldsSessionRef(m, k) ==
    /\ monitors[m] # NoMon
    /\ monitors[m].sid = k
    /\ ~(monitors[m].pc = "peek" /\ chan[m] # <<>>)

\* self.sessions.insert(..) waits for the write lock of the key's shard
CreateInsert(c, direct, sp) ==
    /\ callers[c].pc = "cr_insert"
    /\ \A m \in Mons : ~HoldsSessionRef(m, callers[c].shard)
    /\ sessions' = SetSess(callers[c].id, SessionNew(direct, sp, now))
    /\ callers' = [callers EXCEPT ![c].pc = "done", ![c].res = Ok(callers[c].id)]
    /\ UNCHANGED <<chunk_requester, monitors, chan, cleaner, now, nsent>>

\* exists: a lookup in chunk_requester
Exists(c, id) ==
    /\ callers[c].pc = "idle"
    /\ callers' = [callers EXCEPT ![c] =
           [IdleCaller EXCEPT !.pc = "done", !.op = "exists", !.id = id,
                              !.res = IF chunk_requester[id] = 0
                                      THEN Err("SessionDoesntExist") ELSE Ok("unit")]]
    /\ UNCHANGED <<sessions, chunk_requester, monitors, chan, cleaner, now, nsent>>

\* get_segment, eta_for_seg, should_client_hard_seek up to rx.recv(): the
\* lookup in chunk_requester and the send
SeekCall(scn, c, op, id, chunk) ==
    /\ callers[c].pc = "idle"
    /\ IF chunk_requester[id] = 0
       THEN /\ callers' = [callers EXCEPT ![c] =
                   [IdleCaller EXCEPT !.pc = "done", !.op = op, !.id = id, !.chunk = chunk,
                                      !.res = Err("SessionDoesntExist")]]
            /\ UNCHANGED <<chan, nsent>>
       ELSE /\ CanSend(scn)
            /\ callers' = [callers EXCEPT ![c] =
                   [IdleCaller EXCEPT !.pc = "wait", !.op = op, !.id = id, !.chunk = chunk,
                                      !.tx = chunk_requester[id]]]
            /\ chan' = [chan EXCEPT ![chunk_requester[id]] =
                           Append(@, Msg(OpCodeOf(op), chunk, c, nsent + 1))]
            /\ nsent' = nsent + 1
    /\ UNCHANGED <<sessions, chunk_requester, monitors, cleaner, now>>

\* init_or_create up to the choice between the stored sender and init_create
InitOrCreate(scn, c, id) ==
    /\ callers[c].pc = "idle"
    /\ IF sessions[id] = NoSession
       THEN callers' = [callers EXCEPT ![c] =
               [IdleCaller EXCEPT !.pc = "done", !.op = "init_or_create", !.id = id,
                                  !.res = Err("SessionDoesntExist")]]
       ELSE IF has_started(sessions[id])
       THEN IF chunk_requester[id] = 0
            THEN callers' = [callers EXCEPT ![c] =
                    [IdleCaller EXCEPT !.pc = "done", !.op = "init_or_create", !.id = id,
                                       !.res = Err("SessionDoesntExist")]]
            ELSE callers' = [callers EXCEPT ![c] =
                    [IdleCaller EXCEPT !.pc = "send", !.op = "init_or_create", !.id = id,
                                       !.tx = chunk_requester[id]]]
       ELSE /\ CanSpawn(scn)
            /\ callers' = [callers EXCEPT ![c] =
                   [IdleCaller EXCEPT !.pc = "ic_spawn", !.op = "init_or_create", !.id = id]]
    /\ UNCHANGED <<sessions, chunk_requester, monitors, chan, cleaner, now, nsent>>

\* init_create: unbounded() and thread::spawn of the session monitor
ICSpawn(c) ==
    /\ callers[c].pc = "ic_spawn"
    /\ monitors' = [monitors EXCEPT ![FreeMon] =
           [sid |-> callers[c].id, pc |-> "peek", last_hard_seek |-> now, item |-> NoItem]]
    /\ callers' = [callers EXCEPT ![c].tx = FreeMon, ![c].pc = "ic_insert"]
    /\ UNCHANGED <<sessions, chunk_requester, chan, cleaner, now, nsent>>

\* init_create: chunk_requester.insert, which waits for the write lock of the
\* entry's shard, that is until no Ref to the entry is held
ICInsert(c) ==
    /\ callers[c].pc = "ic_insert"
    /\ \A d \in Callers : ~HoldsSenderRef(d, callers[c].id)
    /\ chunk_requester' = [chunk_requester EXCEPT ![callers[c].id] = callers[c].tx]
    /\ callers' = [callers EXCEPT ![c].pc = "ic_start"]
    /\ UNCHANGED <<sessions, monitors, chan, cleaner, now, nsent>>

\* init_create: if let Some(x) = self.sessions.get(..) { x.start() }
ICStart(c) ==
    /\ callers[c].pc = "ic_start"
    /\ sessions' = SetSess(callers[c].id, start(sessions[callers[c].id], now))
    /\ callers' = [callers EXCEPT ![c].pc = "send"]
    /\ UNCHANGED <<chunk_requester, monitors, chan, cleaner, now, nsent>>

\* init_or_create: session_tx.send(ChunkInitRequest)
InitSend(scn, c) ==
    /\ callers[c].pc = "send"
    /\ CanSend(scn)
    /\ chan' = [chan EXCEPT ![callers[c].tx] =
                   Append(@, Msg("ChunkInitRequest", 0, c, nsent + 1))]
    /\ nsent' = nsent + 1
    /\ callers' = [callers EXCEPT ![c].pc = "wait"]
    /\ UNCHANGED <<sessions, chunk_requester, monitors, cleaner, now>>

\* after rx.recv(): init_or_create looks the session up and returns init_seg(),
\* the other methods return what they received
Return(c) ==
    /\ callers[c].pc = "ret"
    /\ callers' = [callers EXCEPT
           ![c].pc = "done",
           ![c].res = IF callers[c].op = "init_or_create"
                      THEN IF sessions[callers[c].id] = NoSession
                           THEN Err("SessionDoesntExist")
                           ELSE Ok(init_seg(callers[c].id))
                      ELSE @]
    /\ UNCHANGED <<sessions, chunk_requester, monitors, chan, cleaner, now, nsent>>

\* the caller goes on to its next call
Finish(c) ==
    /\ callers[c].pc = "done"
    /\ callers' = [callers EXCEPT ![c] = IdleCaller]
    /\ UNCHANGED <<sessions, chunk_requester, monitors, chan, cleaner, now, nsent>>

\* ---------------------------------------------------- transcoder child
\* the running child writes its next chunk
Transcode(id) ==
    /\ sessions[id] # NoSession
    /\ has_started(sessions[id])
    /\ ~sessions[id].paused
    /\ LET s == sessions[id]
           n == IF s.cur \in s.chunks THEN s.cur + 1 ELSE s.cur
       IN  /\ n <= s.start_num + MaxAhead
           /\ sessions' = SetSess(id, [s EXCEPT !.cur = n, !.chunks = @ \cup {n}])
    /\ UNCHANGED <<chunk_requester, monitors, chan, callers, cleaner, now, nsent>>

\* the running child reports another speed
SpeedReport(id, sp) ==
    /\ sessions[id] # NoSession
    /\ has_started(sessions[id])
    /\ ~sessions[id].paused
    /\ sp # sessions[id].speed
    /\ sessions' = SetSess(id, [sessions[id] EXCEPT !.speed = sp])
    /\ UNCHANGED <<chunk_requester, monitors, chan, callers, cleaner, now, nsent>>

\* ------------------------------------------------------- cleaner thread
\* The cleaner walks the map over and over (the 10 ms sleep between two passes
\* changes nothing); the entries are taken in the order of their ids.
NextAt(id) == IF id = NumIds THEN 1 ELSE id + 1

\* for v in map_clone.iter() { if v.is_timeout() && !v.paused.load(SeqCst)
CleanerVisit ==
    /\ cleaner.pc = "iter"
    /\ cleaner' = IF /\ sessions[cleaner.at] # NoSession
                     /\ is_timeout(sessions[cleaner.at], now)
                     /\ ~sessions[cleaner.at].paused
                  THEN [cleaner EXCEPT !.pc = "pause"]
                  ELSE [cleaner EXCEPT !.at = NextAt(@)]
    /\ UNCHANGED <<sessions, chunk_requester, monitors, chan, callers, now, nsent>>

\* v.pause()
CleanerPause ==
    /\ cleaner.pc = "pause"
    /\ sessions' = SetSess(cleaner.at, pause(sessions[cleaner.at]))
    /\ cleaner' = [pc |-> "iter", at |-> NextAt(cleaner.at)]
    /\ UNCHANGED <<chunk_requester, monitors, chan, callers, now, nsent>>

Tick(scn) ==
    /\ now < scn.maxt
    /\ now' = now + 1
    /\ UNCHANGED <<sessions, chunk_requester, monitors, chan, callers, cleaner, nsent>>

\* What a scenario explores: the ids create may hand out, the caller threads, the
\* methods and chunks they use, and the bounds on messages, monitors and time.
FullScn == [ids |-> Ids, callers |-> {1}, ops |-> SeekOps, chunks |-> {0, 20},
            calls |-> MaxCalls, mons |-> MaxMon, maxt |-> MaxTime]
SeekScn == [ids |-> {1}, callers |-> Callers, ops |-> {"get_segment"}, chunks |-> ReqChunks,
            calls |-> SeekCalls, mons |-> 1, maxt |-> SeekTime]
RaceScn == [ids |-> {1}, callers |-> Callers, ops |-> {"get_segment"}, chunks |-> {0, 20},
            calls |-> RaceCalls, mons |-> MaxMon, maxt |-> 0]
OrderScn == [ids |-> {1}, callers |-> Callers, ops |-> SeekOps, chunks |-> {0, 20},
             calls |-> OrderCalls, mons |-> 1, maxt |-> 0]
PauseScn == [ids |-> {1}, callers |-> Callers, ops |-> {"get_segment"}, chunks |-> {0, 20},
             calls |-> PauseCalls, mons |-> MaxMon, maxt |-> PauseTime]
LiveScn == [ids |-> {1}, callers |-> {1}, ops |-> {"get_segment"}, chunks |-> {0, 20},
            calls |-> LiveCalls, mons |-> 1, maxt |-> 0]
TwoScn == [ids |-> {1}, callers |-> Callers, ops |-> {"get_segment"}, chunks |-> {0, 20},
           calls |-> TwoCalls, mons |-> 1, maxt |-> 0]
ResumeScn == [ids |-> {1}, callers |-> {1}, ops |-> {"get_segment"}, chunks |-> {0, 20},
              calls |-> ResumeCalls, mons |-> 1, maxt |-> ResumeTime]
ShardScn == [ids |-> Ids, callers |-> {1}, ops |-> {"get_segment"}, chunks |-> {0, 20},
             calls |-> ShardCalls, mons |-> 1, maxt |-> 0]

\* init_or_create and the return of every method
InitCallStep(scn) ==
    \/ \E c \in scn.callers, id \in Ids : InitOrCreate(scn, c, id)
    \/ \E c \in Callers : ICSpawn(c)
    \/ \E c \in Callers : ICInsert(c)
    \/ \E c \in Callers : ICStart(c)
    \/ \E c \in Callers : InitSend(scn, c)
    \/ \E c \in Callers : Return(c)
    \/ \E c \in Callers : Finish(c)

\* the same with create, for ids whose shard no monitor holds
InitStep(scn) ==
    \/ \E direct \in BOOLEAN, sp \in Speeds : Create(scn, direct, sp)
    \/ InitCallStep(scn)

\* create as a call of its own that takes the shard's lock
CreateStep(scn) ==
    \/ \E c \in scn.callers, k \in {0} \cup Ids : CreateCall(scn, c, k)
    \/ \E c \in Callers, direct \in BOOLEAN, sp \in Speeds : CreateInsert(c, direct, sp)

SeekStep(scn) ==
    \E c \in scn.callers, op \in scn.ops, id \in Ids, chunk \in scn.chunks :
        SeekCall(scn, c, op, id, chunk)

ExistsStep(scn) == \E c \in scn.callers, id \in Ids : Exists(c, id)

ChildStep ==
    \/ \E id \in Ids : Transcode(id)
    \/ \E id \in Ids, sp \in Speeds : SpeedReport(id, sp)

CleanerStep ==
    \/ CleanerVisit
    \/ CleanerPause

Next ==
    \/ InitStep(FullScn)
    \/ SeekStep(FullScn)
    \/ ExistsStep(FullScn)
    \/ \E m \in Mons : MonitorStep(m)
    \/ ChildStep
    \/ CleanerStep
    \/ Tick(FullScn)

Spec == Init /\ [][Next]_vars

\* one session and one monitor, init_or_create and get_segment, no cleaner
NextSeek ==
    \/ InitStep(SeekScn)
    \/ SeekStep(SeekScn)
    \/ \E m \in Mons : MonitorStep(m)
    \/ ChildStep
    \/ Tick(SeekScn)

SpecSeek == Init /\ [][NextSeek]_vars

\* one session that two callers may both init_create, no cleaner, no clock
NextRace ==
    \/ InitStep(RaceScn)
    \/ SeekStep(RaceScn)
    \/ \E m \in Mons : MonitorStep(m)
    \/ ChildStep

SpecRace == Init /\ [][NextRace]_vars

\* one session, every OpCode, two callers
NextOrder ==
    \/ InitStep(OrderScn)
    \/ SeekStep(OrderScn)
    \/ \E m \in Mons : MonitorStep(m)
    \/ ChildStep

SpecOrder == Init /\ [][NextOrder]_vars

\* one session with callers, monitors and the cleaner all at work on it
NextPause ==
    \/ InitStep(PauseScn)
    \/ SeekStep(PauseScn)
    \/ \E m \in Mons : MonitorStep(m)
    \/ ChildStep
    \/ CleanerStep
    \/ Tick(PauseScn)

SpecPause == Init /\ [][NextPause]_vars

\* one caller and one session; the monitor threads and the caller's thread are
\* scheduled fairly, the transcoder may produce nothing
NextLive ==
    \/ InitStep(LiveScn)
    \/ SeekStep(LiveScn)
    \/ \E m \in Mons : MonitorStep(m)
    \/ ChildStep

SpecLive ==
    /\ Init
    /\ [][NextLive]_vars
    /\ \A m \in Mons : WF_vars(MonitorStep(m))
    /\ \A c \in Callers : WF_vars(ICSpawn(c) \/ ICInsert(c) \/ ICStart(c)
                                  \/ InitSend(LiveScn, c) \/ Return(c) \/ Finish(c))

\* the steps of caller c that wait for nobody but the scheduler
CallerRuns(scn, c) ==
    \/ ICSpawn(c) \/ ICInsert(c) \/ ICStart(c)
    \/ InitSend(scn, c) \/ Return(c) \/ Finish(c)

\* two callers with requests pending together on one session; every thread is
\* scheduled fairly and a child that stays running writes its next chunk
NextTwo ==
    \/ InitStep(TwoScn)
    \/ SeekStep(TwoScn)
    \/ \E m \in Mons : MonitorStep(m)
    \/ ChildStep

SpecTwo ==
    /\ Init
    /\ [][NextTwo]_vars
    /\ \A m \in Mons : WF_vars(MonitorStep(m))
    /\ \A c \in Callers : WF_vars(CallerRuns(TwoScn, c))
    /\ \A id \in Ids : WF_vars(Transcode(id))

\* one caller, one session and the cleaner.  pause() stops the child and cont()
\* lets it go on where it was, so a child that is let run again and again
\* gets its next chunk written: strong fairness for the transcoder.
NextResume ==
    \/ InitStep(ResumeScn)
    \/ SeekStep(ResumeScn)
    \/ \E m \in Mons : MonitorStep(m)
    \/ ChildStep
    \/ CleanerStep
    \/ Tick(ResumeScn)

SpecResume ==
    /\ Init
    /\ [][NextResume]_vars
    /\ \A m \in Mons : WF_vars(MonitorStep(m))
    /\ \A c \in Callers : WF_vars(CallerRuns(ResumeScn, c))
    /\ \A id \in Ids : SF_vars(Transcode(id))

\* one caller that creates, inits and requests; create takes the lock of the
\* session map's shard; monitors and the caller are scheduled fairly
NextShard ==
    \/ CreateStep(ShardScn)
    \/ InitCallStep(ShardScn)
    \/ SeekStep(ShardScn)
    \/ \E m \in Mons : MonitorStep(m)
    \/ ChildStep

SpecShard ==
    /\ Init
    /\ [][NextShard]_vars
    /\ \A m \in Mons : WF_vars(MonitorStep(m))
    /\ \A c \in Callers :
          WF_vars(CallerRuns(ShardScn, c)
                  \/ \E direct \in BOOLEAN, sp \in Speeds : CreateInsert(c, direct, sp))

\* ================================================================ claims
\* which step of a monitor this is
Steps(m) == monitors[m] # NoMon /\ monitors'[m] # monitors[m]
Test1(m) == Steps(m) /\ monitors[m].pc = "peek" /\ monitors'[m].pc \in {"reset1", "cont"}
Test2(m) == Steps(m) /\ monitors[m].pc = "cond2"
Test3(m) == Steps(m) /\ monitors[m].pc = "cond3"
Checks(m) == Steps(m) /\ monitors[m].pc = "check"
Replies(m) == Steps(m) /\ monitors[m].pc = "reply"
HardSeekStarts(m) ==
    /\ Steps(m)
    /\ monitors[m].pc \in {"peek", "cond2", "cond3"}
    /\ monitors'[m].pc \in {"reset1", "reset2", "reset3"}
\* the chunk of the session's last hard seek (zero before the first): reset_to
\* makes it the start_num
HardSeekedAt(s) == start_num(s)
Recent(m) == now * TickSecs < monitors[m].last_hard_seek * TickSecs + CooldownSecs
NotDone(m) == ~is_chunk_done(Sess(m), Peeked(m).chunk)

\* C1 as stated: each of the three tests of a handled chunk_request hard seeks
\* exactly when the chunk is not yet done and the test's condition holds:
\* chunk < start_num; chunk > current_chunk + 15 within 15 s of the last hard
\* seek and chunk > hard_seeked_at; eta in ms > max(10000 / raw_speed, 8000).
C1_HardSeekIffNotDoneAndCondition ==
    [][\A m \in Mons :
        /\ Test1(m) => (HardSeekStarts(m) <=>
                          (NotDone(m) /\ Peeked(m).chunk < start_num(Sess(m))))
        /\ Test2(m) => (HardSeekStarts(m) <=>
                          (/\ NotDone(m)
                           /\ Peeked(m).chunk > current_chunk(Sess(m)) + FarChunks
                           /\ Recent(m)
                           /\ Peeked(m).chunk > HardSeekedAt(Sess(m))))
        /\ Test3(m) => (HardSeekStarts(m) <=>
                          (NotDone(m) /\ EtaOver(Sess(m), Peeked(m).chunk, EtaFloorMs)))
      ]_vars

\* C1 amended: the first test hard seeks exactly when chunk < start_num, whether
\* or not the chunk is done; the other two hard seek exactly when the chunk is
\* not done and their condition holds.
C1_HardSeekIffTests ==
    [][\A m \in Mons :
        /\ Test1(m) => (HardSeekStarts(m) <=> Peeked(m).chunk < start_num(Sess(m)))
        /\ Test2(m) => (HardSeekStarts(m) <=>
                          (/\ NotDone(m)
                           /\ Peeked(m).chunk > current_chunk(Sess(m)) + FarChunks
                           /\ Recent(m)
                           /\ Peeked(m).chunk > HardSeekedAt(Sess(m))))
        /\ Test3(m) => (HardSeekStarts(m) <=>
                          (NotDone(m) /\ EtaOver(Sess(m), Peeked(m).chunk, EtaFloorMs)))
      ]_vars

\* a hard seek under way for a chunk that is done
C1_Witness ==
    \E m \in Mons :
        /\ monitors[m] # NoMon
        /\ monitors[m].pc = "reset1"
        /\ is_chunk_done(Sess(m), Peeked(m).chunk)

\* C2 as stated: no step hard seeks a direct-play session or changes its
\* start_num.
C2_DirectPlayNeverHardSeeks ==
    [][\A m \in Mons :
        (monitors[m] # NoMon /\ Sess(m).direct) =>
            /\ ~HardSeekStarts(m)
            /\ start_num(sessions'[monitors[m].sid]) = start_num(Sess(m))
      ]_vars

C3_RepliesInArrivalOrder ==
    [][\A m \in Mons :
        Replies(m) =>
            \A i \in DOMAIN chan[m] : chan[m][i].seq > monitors[m].item.seq
      ]_vars

\* C3 amended: requests are taken from the channel in arrival order, and a
\* request is answered before an earlier one only if the earlier one was sent
\* back to the channel because its chunk was not done.
C3_OnlySentBackOvertaken ==
    [][\A m \in Mons :
        Replies(m) =>
            \A i \in DOMAIN chan[m] :
                chan[m][i].seq < monitors[m].item.seq => chan[m][i].rq
      ]_vars

\* an answer about to be given while an earlier request waits in the channel
C3_Witness ==
    \E m \in Mons :
        /\ monitors[m] # NoMon
        /\ monitors[m].pc = "reply"
        /\ \E i \in DOMAIN chan[m] :
              chan[m][i].seq < monitors[m].item.seq /\ chan[m][i].rq

\* C4 as stated: a path is given out, for a chunk request and for the init
\* request alike, only when the chunk it names is done.
C4_PathOnlyForDoneChunk ==
    [][\A m \in Mons :
        (Replies(m) /\ monitors[m].item.op \in {"ChunkRequest", "ChunkInitRequest"}) =>
            is_chunk_done(Sess(m), WantedChunk(Sess(m), monitors[m].item))
      ]_vars

\* C6 as stated: every get_segment call that has reached a monitor's channel
\* eventually returns to its caller, whether or not the transcoder produces
\* the chunk.
C6_GetSegmentReturns ==
    \A c \in Callers :
        (callers[c].op = "get_segment" /\ callers[c].pc = "wait")
            ~> (callers[c].pc # "wait")

\* a command decides whether the id is known on its first step
Decides(c) == callers[c].pc = "idle" /\ callers'[c].pc # "idle"

\* C7 as stated: a command fails with SessionDoesntExist exactly when its id
\* names no session in the session map.
C7_SessionDoesntExistIffUnknownId ==
    [][\A c \in Callers :
        Decides(c) =>
            ((callers'[c].pc = "done" /\ callers'[c].res = Err("SessionDoesntExist"))
                <=> sessions[callers'[c].id] = NoSession)
      ]_vars

\* C8: the step that puts a new session into the map leaves it stopped, with
\* start_num 0, no child, no monitor and no channel, and changes nothing else.
C8_CreateStoresStoppedSession ==
    [][\A id \in Ids :
        (sessions[id] = NoSession /\ sessions'[id] # NoSession) =>
            /\ start_num(sessions'[id]) = 0
            /\ ~has_started(sessions'[id])
            /\ sessions'[id].child = 0
            /\ \A m \in Mons : monitors'[m] # NoMon => monitors'[m].sid # id
            /\ chunk_requester'[id] = 0
            /\ \A j \in Ids \ {id} : sessions'[j] = sessions[j]
            /\ UNCHANGED <<chunk_requester, monitors, chan, cleaner, now, nsent>>
      ]_vars

\* a stopped session next to one that is transcoding under its monitor
C8_Witness ==
    \E id, j \in Ids :
        /\ sessions[id] # NoSession /\ sessions[j] # NoSession
        /\ ~has_started(sessions[id]) /\ chunk_requester[id] = 0
        /\ has_started(sessions[j]) /\ chunk_requester[j] # 0

CleanerLeaves(id) == cleaner.at = id /\ cleaner' # cleaner /\ cleaner'.pc = "iter"

\* C10 as stated: when the cleaner's pass is done with a session, a session
\* that is not direct play and was idle past the hard timeout is gone from the
\* map, and one idle past the soft timeout only is present and paused.
C10_PassRemovesHardTimedOut ==
    [][\A id \in Ids :
        (CleanerLeaves(id) /\ sessions[id] # NoSession) =>
            /\ (~sessions[id].direct /\ is_hard_timeout(sessions[id], now))
                  => sessions'[id] = NoSession
            /\ (is_timeout(sessions[id], now) /\ ~is_hard_timeout(sessions[id], now))
                  => (sessions'[id] # NoSession /\ sessions'[id].paused)
      ]_vars

\* C11 as stated: the answer to should_hard_seek is false for a session that
\* is not started or is direct play; otherwise true if chunk < start_num or
\* if chunk > current_chunk + 15 within 15 s of the last hard seek; otherwise
\* eta_for(chunk) in ms > max(10000 / raw_speed, 5000).  Answering changes
\* neither the session nor the last-hard-seek time.
C11_ShouldHardSeekAnswer ==
    [][\A m \in Mons :
        (Replies(m) /\ monitors[m].item.op = "ShouldClientHardSeek") =>
            LET s == Sess(m)
                chunk == monitors[m].item.chunk
                claimed ==
                    IF ~has_started(s) \/ s.direct THEN FALSE
                    ELSE IF chunk < start_num(s) THEN TRUE
                    ELSE IF chunk > current_chunk(s) + FarChunks /\ Recent(m) THEN TRUE
                    ELSE EtaOver(s, chunk, ClientEtaFloorMs)
            IN  /\ callers'[monitors[m].item.from].res = Ok(claimed)
                /\ sessions' = sessions
                /\ monitors'[m].last_hard_seek = monitors[m].last_hard_seek
      ]_vars

\* monitor m is handling a ChunkRequest for chunk k: it has peeked it, or taken it
Handling(m, k) ==
    /\ monitors[m] # NoMon
    /\ \/ /\ monitors[m].pc \in {"peek", "cont", "cond2", "cond3", "next"}
          /\ chan[m] # <<>>
          /\ Peeked(m).op = "ChunkRequest"
          /\ Peeked(m).chunk = k
       \/ /\ monitors[m].pc \in {"check", "reply"}
          /\ monitors[m].item.op = "ChunkRequest"
          /\ monitors[m].item.chunk = k
\* what serving a done chunk k as it is means for one step of the monitor
ServedAsIs(m, k) ==
    LET id == monitors[m].sid
    IN  /\ is_chunk_done(sessions'[id], k)
        /\ sessions'[id].child = sessions[id].child
        /\ start_num(sessions'[id]) = start_num(sessions[id])
        /\ monitors[m].pc = "check" => monitors'[m].pc = "reply"
        /\ monitors[m].pc = "reply" =>
              callers'[monitors[m].item.from].res = Ok(chunk_to_path(id, k))

\* C12 as stated: whenever chunk k is done, handling get_segment(id, k) gives
\* the path chunk_to_path(k) without restarting the transcoder or removing
\* chunk k, also when k < start_num.
C12_DoneChunkIdempotent ==
    [][\A m \in Mons : \A k \in ReqChunks :
        (Steps(m) /\ Handling(m, k) /\ is_chunk_done(Sess(m), k)) => ServedAsIs(m, k)
      ]_vars

\* C12 amended: the same for a done chunk k >= start_num; a request for a
\* done chunk k < start_num hard seeks back to k.
C12_DoneChunkFromStartIdempotent ==
    [][\A m \in Mons : \A k \in ReqChunks :
        (Steps(m) /\ Handling(m, k) /\ is_chunk_done(Sess(m), k)
                  /\ k >= start_num(Sess(m))) => ServedAsIs(m, k)
      ]_vars

\* a done chunk being answered while a second request for it waits
C12_Witness ==
    \E m \in Mons :
        /\ monitors[m] # NoMon
        /\ monitors[m].pc = "reply"
        /\ monitors[m].item.op = "ChunkRequest"
        /\ is_chunk_done(Sess(m), monitors[m].item.chunk)
        /\ \E i \in DOMAIN chan[m] :
              /\ chan[m][i].op = "ChunkRequest"
              /\ chan[m][i].chunk = monitors[m].item.chunk

\* C13: a chunk_request for a chunk c < start_num is hard seeked (for any
\* session, so for a started one that is not direct play): the monitor joins
\* the child, then resets to c, which sets start_num to c and removes the
\* chunks from c on, then starts; after the start start_num is c and a child
\* is running.
C13_BackwardSeekHardSeeks ==
    [][\A m \in Mons :
        LET id == monitors[m].sid
            c == Peeked(m).chunk
        IN  /\ (Test1(m) /\ c < start_num(Sess(m))) =>
                  /\ monitors'[m].pc = "reset1"
                  /\ sessions'[id].child = 0
                  /\ sessions'[id].chunks = sessions[id].chunks
            /\ (Steps(m) /\ monitors[m].pc = "reset1") =>
                  /\ monitors'[m].pc = "start1"
                  /\ start_num(sessions'[id]) = c
                  /\ sessions'[id].chunks = {x \in sessions[id].chunks : x < c}
            /\ (Steps(m) /\ monitors[m].pc = "start1") =>
                  /\ start_num(sessions'[id]) = c
                  /\ has_started(sessions'[id])
      ]_vars

\* joined and reset to a chunk before the old start, with the start to come
C13_Witness ==
    \E m \in Mons :
        /\ monitors[m] # NoMon
        /\ monitors[m].pc = "start1"
        /\ start_num(Sess(m)) = Peeked(m).chunk
        /\ ~has_started(Sess(m))
        /\ Sess(m).chunks = {}

\* C14 as stated: the start that ends a hard seek, whichever of the three
\* tests began it, leaves last_hard_seek at the time of that hard seek.
C14_HardSeekStampsLastHardSeek ==
    [][\A m \in Mons :
        (Steps(m) /\ monitors[m].pc \in {"start1", "start2", "start3"}) =>
            monitors'[m].last_hard_seek = now
      ]_vars

\* monitor m has joined the child for a hard seek and not yet started the next
MidHardSeek(m) ==
    /\ monitors[m] # NoMon
    /\ monitors[m].pc \in {"reset1", "reset2", "reset3", "start1", "start2", "start3"}

\* C15 as stated: while a monitor is in the middle of a hard seek, no step of
\* the cleaner, of a caller or of another monitor changes that session.
C15_NoInterleavingOnSession ==
    [][\A m \in Mons :
        (/\ MidHardSeek(m)
         /\ ~Steps(m)
         /\ \/ cleaner' # cleaner
            \/ callers' # callers
            \/ \E k \in Mons \ {m} : Steps(k))
        => sessions'[monitors[m].sid] = sessions[monitors[m].sid]
      ]_vars

\* handling a ChunkRequest for chunk in this state would hard seek
ServerHardSeeks(m, chunk) ==
    \/ PeekCond1(Sess(m), chunk)
    \/ PeekCond2(Sess(m), chunk, now, monitors[m].last_hard_seek)
    \/ PeekCond3(Sess(m), chunk)

\* C16: in every state and for every chunk, if the monitor would hard seek for
\* a chunk_request of the chunk, its answer to should_hard_seek for the chunk
\* is true.
C16_ClientHintCoversServer ==
    \A m \in Mons : \A chunk \in 0..MaxHintChunk :
        (monitors[m] # NoMon /\ ServerHardSeeks(m, chunk)) =>
            ClientHardSeek(Sess(m), chunk, now, monitors[m].last_hard_seek)

\* a should_hard_seek about to be answered for a chunk whose chunk_request
\* would hard seek
C16_Witness ==
    \E m \in Mons :
        /\ monitors[m] # NoMon
        /\ monitors[m].pc = "reply"
        /\ monitors[m].item.op = "ShouldClientHardSeek"
        /\ ServerHardSeeks(m, monitors[m].item.chunk)
        /\ ReplyFor(m, monitors[m].item) = Ok(TRUE)

\* C17 as stated: a session id never has more than one monitor thread, and the
\* channel stored for it in chunk_requester is never replaced.
C17_OneMonitorOneChannel ==
    [][\A id \in Ids :
        /\ Cardinality({m \in Mons : monitors'[m] # NoMon /\ monitors'[m].sid = id}) <= 1
        /\ chunk_requester[id] # 0 => chunk_requester'[id] = chunk_requester[id]
      ]_vars

\* get_segment calls of all callers are outstanding together
BothPending ==
    \A d \in Callers : callers[d].op = "get_segment" /\ callers[d].pc = "wait"

\* C18 as stated: when two get_segment calls are pending together on one
\* session and a running transcoder keeps writing chunks, each of them is
\* eventually answered.
C18_BothEventuallyAnswered ==
    \A c \in Callers : BothPending ~> (callers[c].pc # "wait")

\* caller c waits for a chunk that the session's child, as bounded here, can
\* still write: at most MaxAhead past start_num
PendingInReach(c) ==
    /\ callers[c].op = "get_segment"
    /\ callers[c].pc = "wait"
    /\ callers[c].chunk <= start_num(sessions[callers[c].id]) + MaxAhead

AllIdle ==
    /\ \A m \in Mons : chan[m] = <<>>
    /\ \A m \in Mons : monitors[m] # NoMon =>
          (monitors[m].pc = "peek" /\ monitors[m].item = NoItem)
    /\ \A c \in Callers : callers[c].op \in {"none", "create"}

\* C20 as stated: a create that has begun while every session is idle
\* completes.
C20_CreateCompletes ==
    \A c \in Callers :
        (callers[c].pc = "cr_insert" /\ AllIdle) ~> (callers[c].pc # "cr_insert")

====
